---- MODULE Spec2Model ----
(* A model of goes_viewer: the per-file processing pipeline                 *)
(* (process_files.py), the point-metadata filter (write_metadata.py) and    *)
(* the browser callbacks of the viewer (figure.py).                         *)
(*                                                                          *)
(* The program's parts do not share state, so each part has a specification *)
(* of its own over the part's variables; the other variables stay at their  *)
(* initial values:                                                          *)
(*   SpecName      make_img_filename and the viewer's title callback        *)
(*   SpecColor     the contrast stretch of make_geocolor_image              *)
(*   SpecResample  resample_image                                           *)
(*   SpecMeta      filter_func and parse_metadata                           *)
(*   SpecS3        get_s3_keys                                              *)
(*   SpecProcess   process_s3_file, run by concurrent workers               *)
(*   SpecViewer    the adapter, slider and play callbacks                   *)
EXTENDS Integers, Sequences, FiniteSets, TLC

VARIABLES
    \* SpecName: a Scene's platform id and time, the frame's name, the date
    \* the title callback reads, and the position in the run
    nameIn, nameOut, titleDate, namePc,
    \* SpecColor: CONTRAST, one value of RGB_ColorIR, the factor F and the
    \* value of out, and the position in the run
    colorContrast, colorIn, colorF, colorOut, colorPc,
    \* SpecResample: the Plan, the image, the output raster
    resPlan, resImg, resOut, resPc,
    \* SpecMeta: the feed's Metadata list, the filters, parse_metadata's result
    metaFeed, metaFilters, metaResult, metaPc,
    \* SpecS3: the bucket's keys, get_s3_keys' arguments, its kwargs, the
    \* page in hand and the index into it, the keys yielded, the pages
    \* fetched and the tokens they were requested with
    s3Bucket, s3Prefix, s3Timestamp, s3Kwargs, s3Resp, s3Idx, s3Yielded,
    s3Pages, s3Requests, s3Pc,
    \* SpecViewer: the directory listing the server gives, the response of
    \* the last poll, whether url_source has data, url_source.data['url'],
    \* fig_source.data['url'], the title's date, slider.value, slider.end,
    \* play_buttons.active and whether the play timer runs
    vListing, vResponse, vPolled, vUrlData, vFigUrl, vTitleDate, vSliderValue,
    vSliderEnd, vActive, vTimer,
    \* SpecProcess: the runs of process_s3_file, the files of the output
    \* directory, how often make_resample_params has run per (satellite,
    \* target extent), and what the viewer's last poll of the directory saw
    pRuns, pFiles, pPlanRuns, pPolled

nameVars == <<nameIn, nameOut, titleDate, namePc>>
colorVars == <<colorContrast, colorIn, colorF, colorOut, colorPc>>
resVars == <<resPlan, resImg, resOut, resPc>>
metaVars == <<metaFeed, metaFilters, metaResult, metaPc>>
s3Vars == <<s3Bucket, s3Prefix, s3Timestamp, s3Kwargs, s3Resp, s3Idx, s3Yielded,
            s3Pages, s3Requests, s3Pc>>

viewVars == <<vListing, vResponse, vPolled, vUrlData, vFigUrl, vTitleDate,
              vSliderValue, vSliderEnd, vActive, vTimer>>

procVars == <<pRuns, pFiles, pPlanRuns, pPolled>>

vars == <<nameVars, colorVars, resVars, metaVars, s3Vars, viewVars, procVars>>

None == "none"

(***************************************************************************)
(* Sequences of characters: Python str and JavaScript String.              *)
(***************************************************************************)

Digits == <<"0", "1", "2", "3", "4", "5", "6", "7", "8", "9">>

Digit(d) == Digits[d + 1]

\* "%02d"
Pad2(n) == <<Digit((n \div 10) % 10), Digit(n % 10)>>

\* "%04d"
Pad4(n) == <<Digit((n \div 1000) % 10), Digit((n \div 100) % 10)>> \o Pad2(n % 100)

Last(s) == s[Len(s)]

\* str.split(sep) for a one-character separator: the pieces between the
\* separators, empty pieces kept.
RECURSIVE SplitFrom(_, _, _, _)
SplitFrom(s, sep, i, cur) ==
    IF i > Len(s) THEN <<cur>>
    ELSE IF s[i] = sep THEN <<cur>> \o SplitFrom(s, sep, i + 1, <<>>)
    ELSE SplitFrom(s, sep, i + 1, Append(cur, s[i]))

Split(s, sep) == SplitFrom(s, sep, 1, <<>>)

\* str.endswith / str.startswith
EndsWith(s, suf) ==
    /\ Len(s) >= Len(suf)
    /\ SubSeq(s, Len(s) - Len(suf) + 1, Len(s)) = suf

StartsWith(s, pre) ==
    /\ Len(s) >= Len(pre)
    /\ SubSeq(s, 1, Len(pre)) = pre

(***************************************************************************)
(* make_img_filename.  The acquisition time ds.t.item() is an integer      *)
(* number of nanoseconds since the epoch; it is held as whole seconds and  *)
(* the nanoseconds within the second, [sec, nanos], so that every number   *)
(* stays below 2^31.                                                       *)
(***************************************************************************)

\* The civil date of a day number (days since 1970-01-01), as the datetime
\* constructor computes it.
CivilFromDays(days) ==
    LET z   == days + 719468
        era == z \div 146097
        doe == z - era * 146097
        yoe == (doe - doe \div 1460 + doe \div 36524 - doe \div 146096) \div 365
        doy == doe - (365 * yoe + yoe \div 4 - yoe \div 100)
        mp  == (5 * doy + 2) \div 153
        d   == doy - (153 * mp + 2) \div 5 + 1
        m   == IF mp < 10 THEN mp + 3 ELSE mp - 9
        y   == yoe + era * 400 + (IF m <= 2 THEN 1 ELSE 0)
    IN  [year |-> y, month |-> m, day |-> d]

\* The day number of a civil date.
DaysFromCivil(y0, m, d) ==
    LET y   == IF m <= 2 THEN y0 - 1 ELSE y0
        era == y \div 400
        yoe == y - era * 400
        mp  == IF m > 2 THEN m - 3 ELSE m + 9
        doy == (153 * mp + 2) \div 5 + d - 1
        doe == yoe * 365 + yoe \div 4 - yoe \div 100 + doy
    IN  era * 146097 + doe - 719468

\* dt.datetime.utcfromtimestamp(ds.t.item() / 1e9): the float quotient is
\* rounded to the nearest microsecond, and a fraction that rounds to
\* 1000000 microseconds carries into the next second.  The carry happens
\* from 999999500 ns on in exact arithmetic; the float quotient moves the
\* threshold by up to some hundred nanoseconds with the magnitude of t, so
\* the operator is used on nanos <= 999999000 or nanos >= 999999600 only.
utcfromtimestamp(t) ==
    LET s    == t.sec + (IF t.nanos >= 999999500 THEN 1 ELSE 0)
        days == s \div 86400
        rem  == s % 86400
        c    == CivilFromDays(days)
    IN  [year |-> c.year, month |-> c.month, day |-> c.day,
         hour |-> rem \div 3600, minute |-> (rem % 3600) \div 60,
         second |-> rem % 60]

\* date.strftime("%Y-%m-%dT%H:%M:%SZ")
strftime(date) ==
    Pad4(date.year) \o <<"-">> \o Pad2(date.month) \o <<"-">> \o Pad2(date.day)
    \o <<"T">> \o Pad2(date.hour) \o <<":">> \o Pad2(date.minute) \o <<":">>
    \o Pad2(date.second) \o <<"Z">>

\* A plausible slip: the local-time call, here in a zone one hour east.
make_img_filename_localtime(ds) ==
    <<"f", "i", "g", "s", "/">> \o ds.platform_ID \o <<"_">>
    \o strftime(utcfromtimestamp([sec |-> ds.t.sec + 3600, nanos |-> ds.t.nanos]))
    \o <<".", "p", "n", "g">>

make_img_filename(ds) ==
    <<"f", "i", "g", "s", "/">> \o ds.platform_ID \o <<"_">>
    \o strftime(utcfromtimestamp(ds.t))
    \o <<".", "p", "n", "g">>

\* title_callback: url.split('/').pop().split('_').pop().split('.')[0]
title_callback(url) ==
    Split(Last(Split(Last(Split(url, "/")), "_")), ".")[1]

\* The platform ids of the two satellites.
PlatformIDs == {<<"G", "1", "6">>, <<"G", "1", "7">>}

\* Acquisition times the model draws from: the epoch, the last second of a
\* day, leap days, a year's end, and an ordinary frame time of August 2019.
NameSeconds ==
    {0, 86399, 951782400, 951868799, 1564938318, 1564938319,
     1577836799, 1577836800, 1582934400, 1583020799}

NameNanos == {0, 1, 500000000, 999999000, 999999999}

NameInputs ==
    [platform_ID : PlatformIDs, t : [sec : NameSeconds, nanos : NameNanos]]

StartName ==
    /\ nameIn \in NameInputs
    /\ nameOut = None
    /\ titleDate = None
    /\ namePc = "scene"

\* The part is not run.
IdleName ==
    /\ nameIn = None
    /\ nameOut = None
    /\ titleDate = None
    /\ namePc = "off"

notName == <<colorVars, resVars, metaVars, s3Vars, viewVars, procVars>>

\* process_s3_file's last line computes the frame's name.
MakeImgFilename ==
    /\ namePc = "scene"
    /\ nameOut' = make_img_filename(nameIn)
    /\ namePc' = "named"
    /\ UNCHANGED <<nameIn, titleDate, notName>>

\* The viewer shows the frame: the title callback reads the date out of
\* the frame's URL.
TitleCallback ==
    /\ namePc = "named"
    /\ titleDate' = title_callback(<<"h", "/">> \o nameOut)
    /\ namePc' = "titled"
    /\ UNCHANGED <<nameIn, nameOut, notName>>

NextName == MakeImgFilename \/ TitleCallback


(***************************************************************************)
(* Reading a frame name back.                                              *)
(***************************************************************************)

DigitValue(c) == CHOOSE d \in 0..9 : Digits[d + 1] = c

RECURSIVE ParseInt(_)
ParseInt(s) ==
    IF s = <<>> THEN 0
    ELSE 10 * ParseInt(SubSeq(s, 1, Len(s) - 1)) + DigitValue(Last(s))

\* "YYYY-MM-DDTHH:MM:SSZ" read as seconds since the epoch.
ParseTimestamp(s) ==
    DaysFromCivil(ParseInt(SubSeq(s, 1, 4)), ParseInt(SubSeq(s, 6, 7)),
                  ParseInt(SubSeq(s, 9, 10))) * 86400
    + ParseInt(SubSeq(s, 12, 13)) * 3600 + ParseInt(SubSeq(s, 15, 16)) * 60
    + ParseInt(SubSeq(s, 18, 19))

\* The platform id is the part of the file's name before the '_'.
DecodePlatform(name) == Split(Last(Split(name, "/")), "_")[1]

\* C8 as stated: decoding the name make_img_filename gives recovers the
\* exact platform id and the exact acquisition time, nanoseconds included.
C8_ExactRoundTrip ==
    namePc = "titled" =>
        /\ DecodePlatform(nameOut) = nameIn.platform_ID
        /\ ParseTimestamp(titleDate) = nameIn.t.sec
        /\ nameIn.t.nanos = 0

\* C8 amended: the name has the form figs/<platform>_<YYYY-MM-DDTHH:MM:SSZ>.png,
\* decoding it recovers the platform id and the acquisition time to the
\* second only: the time itself when it is a whole number of seconds, else
\* the second that holds it, or the next second when the time is within a
\* microsecond of that next second.
C8_RoundTripToSecond ==
    /\ namePc # "scene" =>
        /\ StartsWith(nameOut, <<"f", "i", "g", "s", "/">>)
        /\ EndsWith(nameOut, <<".", "p", "n", "g">>)
        /\ Len(nameOut) = 5 + Len(nameIn.platform_ID) + 1 + 20 + 4
    /\ namePc = "titled" =>
        /\ DecodePlatform(nameOut) = nameIn.platform_ID
        /\ Len(titleDate) = 20
        /\ nameIn.t.nanos = 0 => ParseTimestamp(titleDate) = nameIn.t.sec
        /\ \/ ParseTimestamp(titleDate) = nameIn.t.sec
           \/ /\ ParseTimestamp(titleDate) = nameIn.t.sec + 1
              /\ nameIn.t.nanos >= 999999000

\* A frame taken half a second past a whole second, at the end of a leap
\* day, has been named and read back as that whole second.
C8_Witness ==
    /\ namePc = "titled"
    /\ nameIn.t = [sec |-> 1583020799, nanos |-> 500000000]
    /\ titleDate = <<"2", "0", "2", "0", "-", "0", "2", "-", "2", "9", "T",
                     "2", "3", ":", "5", "9", ":", "5", "9", "Z">>
    /\ ParseTimestamp(titleDate) = 1583020799

(***************************************************************************)
(* make_geocolor_image: the contrast stretch.  Floats are held as exact    *)
(* fractions <<numerator, denominator>> in lowest terms, denominator > 0.  *)
(***************************************************************************)

RECURSIVE GCD(_, _)
GCD(a, b) == IF b = 0 THEN a ELSE GCD(b, a % b)

Abs(n) == IF n < 0 THEN -n ELSE n

Rat(n, d) ==
    LET g == GCD(Abs(n), Abs(d))
        sgn == IF d < 0 THEN -1 ELSE 1
    IN  <<sgn * (n \div g), sgn * (d \div g)>>

\* np.clip(x, 0, 1)
Clip01(x) ==
    IF x[1] < 0 THEN <<0, 1>>
    ELSE IF x[1] > x[2] THEN <<1, 1>>
    ELSE x

\* The values of RGB_ColorIR the model draws from: k / ColorDen, k in 0..ColorDen.
ColorDen == 4

\* F = (259 * (CONTRAST + 255)) / (255.0 * 259 - CONTRAST)
ContrastFactor(contrast) ==
    Rat(259 * (contrast + 255), 255 * 259 - contrast)

\* F * (v - 0.5) + 0.5 for v = k / ColorDen and F = f:
\*   f[1] * (2k - ColorDen) / (f[2] * 2 * ColorDen) + 1/2
Stretch(f, k) ==
    Rat(f[1] * (2 * k - ColorDen) + f[2] * ColorDen, f[2] * 2 * ColorDen)

StartColor ==
    /\ colorContrast \in 0..255
    /\ colorIn \in 0..ColorDen
    /\ colorF = None
    /\ colorOut = None
    /\ colorPc = "composited"

IdleColor ==
    /\ colorContrast = None
    /\ colorIn = None
    /\ colorF = None
    /\ colorOut = None
    /\ colorPc = "off"

notColor == <<nameVars, resVars, metaVars, s3Vars, viewVars, procVars>>

\* F = ...
ComputeF ==
    /\ colorPc = "composited"
    /\ colorF' = ContrastFactor(colorContrast)
    /\ colorPc' = "factor"
    /\ UNCHANGED <<colorContrast, colorIn, colorOut, notColor>>

\* out = F * (RGB_ColorIR - 0.5) + 0.5; out = np.clip(out, 0, 1); return out
StretchAndClip ==
    /\ colorPc = "factor"
    /\ colorOut' = Clip01(Stretch(colorF, colorIn))
    /\ colorPc' = "returned"
    /\ UNCHANGED <<colorContrast, colorIn, colorF, notColor>>

NextColor == ComputeF \/ StretchAndClip

\* The documented factor, 259*(contrast+255) / (255*(259-contrast)).  Its
\* denominator is 0 at no contrast in 0..255.
DocumentedF(contrast) == Rat(259 * (contrast + 255), 255 * (259 - contrast))

\* C4: for every contrast in 0..255 the factor make_geocolor_image applies
\* is 259*(contrast+255) / (255*(259-contrast)), and each output value is
\* clip(F*(in - 0.5) + 0.5, 0, 1) for that F.
C4_DocumentedContrast ==
    /\ colorPc \in {"factor", "returned"} => colorF = DocumentedF(colorContrast)
    /\ colorPc = "returned" =>
           colorOut = Clip01(Stretch(DocumentedF(colorContrast), colorIn))

(***************************************************************************)
(* resample_image.  A Plan holds, for every cell of the target raster, the *)
(* source pixel that contributes to it, or None when no source pixel lies  *)
(* within the search radius; get_sample_from_bil_info gives NaN for such a *)
(* cell, and NaN where the contributing value is NaN.  A float is NaN or a *)
(* number of halves (0, 1/2, 1); a Plan's entry 0 is "no source pixel".    *)
(***************************************************************************)

\* The target raster's number of cells (height * width of shape).
NumTarget == 2

TargetCells == 1..NumTarget

SourcePixels == {1, 2}

Plans == [TargetCells -> SourcePixels \cup {0}]

NaN == [nan |-> TRUE, halves |-> 0]

Num(h) == [nan |-> FALSE, halves |-> h]

ChannelValues == {NaN, Num(0), Num(1), Num(2)}

\* img_arr: for each source pixel, its R, G and B.
Images == [SourcePixels -> [1..3 -> ChannelValues]]

\* pyresample.bilinear.get_sample_from_bil_info(img_arr[..., i].reshape(-1),
\* *resample_params, shape) at one target cell
get_sample_from_bil_info(plan, img, i, cell) ==
    IF plan[cell] = 0 THEN NaN ELSE img[plan[cell]][i]

\* np.dstack([...the three samples...] + [np.ones(shape)]) at one cell
Stacked(plan, img, cell) ==
    [ch \in 1..4 |->
        IF ch = 4 THEN Num(2) ELSE get_sample_from_bil_info(plan, img, ch, cell)]

\* (np.ma.fix_invalid(out).filled(0) * 255).astype("uint8") at one value
ToUint8(v) == IF v.nan THEN 0 ELSE ((v.halves * 255) \div 2) % 256

resample_image(plan, img) ==
    [cell \in TargetCells |->
        [ch \in 1..4 |-> ToUint8(Stacked(plan, img, cell)[ch])]]

StartResample ==
    /\ resPlan \in Plans
    /\ resImg \in Images
    /\ resOut = None
    /\ resPc = "planned"

IdleResample ==
    /\ resPlan = None
    /\ resImg = None
    /\ resOut = None
    /\ resPc = "off"

notResample == <<nameVars, colorVars, metaVars, s3Vars, viewVars, procVars>>

\* nimg = resample_image(resample_params, shape, img)
ResampleImage ==
    /\ resPc = "planned"
    /\ resOut' = resample_image(resPlan, resImg)
    /\ resPc' = "resampled"
    /\ UNCHANGED <<resPlan, resImg, notResample>>

NextResample == ResampleImage

\* A target cell that is invalid or has no contributing source pixel.
InvalidCell(plan, img, cell) ==
    \/ plan[cell] = 0
    \/ \E i \in 1..3 : img[plan[cell]][i].nan

\* C2: every output cell that is invalid or has no contributing source
\* pixel is 0 in all four channels, alpha included; a Plan in which no
\* target cell has a source neighbour yields an all-zero raster.
C2_InvalidCellsTransparent ==
    resPc = "resampled" =>
        \A cell \in TargetCells :
            InvalidCell(resPlan, resImg, cell) =>
                \A ch \in 1..4 : resOut[cell][ch] = 0

(***************************************************************************)
(* write_metadata.py.  A dict is a function on its keys; a str is a        *)
(* sequence of characters.                                                 *)
(***************************************************************************)

\* a in b for two str: a is a substring of b
IsSubstring(a, b) ==
    \E i \in 1..(Len(b) - Len(a) + 1) : SubSeq(b, i, i + Len(a) - 1) = a

\* x in v: membership for a list, substring for a str
PyIn(x, v) ==
    IF v.kind = "list" THEN \E i \in 1..Len(v.items) : v.items[i] = x
    ELSE IsSubstring(x, v.str)

\* filter_func(filters, item)
filter_func(filters, item) ==
    \A k \in DOMAIN filters :
        /\ k \in DOMAIN item
        /\ PyIn(item[k], filters[k])

\* filter(partial(filter_func, filters), js), as a list
RECURSIVE Filtered(_, _)
Filtered(filters, js) ==
    IF js = <<>> THEN <<>>
    ELSE (IF filter_func(filters, Head(js)) THEN <<Head(js)>> ELSE <<>>)
         \o Filtered(filters, Tail(js))

\* transform(GEODETIC, WEB_MERCATOR, lon, lat, always_xy=True), in whole
\* metres, for the longitudes and the latitudes 0 and 32 of the model:
\* x = R * lon in radians, y = R * ln(tan(pi/4 + lat/2)).
transform(lon, lat) ==
    <<lon * 111319, IF lat = 0 THEN 0 ELSE 3763310>>

\* parse_metadata from "out = set()" on: the first out.add({...}) raises
\* TypeError, a dict being unhashable, so the function returns only when
\* the filter lets no site through.
parse_metadata(js, filters) ==
    IF Filtered(filters, js) = <<>>
    THEN [kind |-> "list", value |-> <<>>]
    ELSE [kind |-> "TypeError", value |-> <<>>]

GHI == <<"g", "h", "i">>

\* The Type values of the sites of the model: "ghi", "dni" and "g".
SiteTypes == {GHI, <<"d", "n", "i">>, <<"g">>}

SiteNames == {"A", "B"}

\* A site with a Type, and a site without the key.
Sites ==
    {[Name |-> n, Longitude |-> -110, Latitude |-> 32, Type |-> t] :
        n \in SiteNames, t \in SiteTypes}
    \cup {[Name |-> n, Longitude |-> -110, Latitude |-> 32] : n \in SiteNames}

\* The longest feed of the model.
MaxSites == 2

RECURSIVE SeqsUpTo(_, _)
SeqsUpTo(S, n) ==
    IF n = 0 THEN {<<>>}
    ELSE SeqsUpTo(S, n - 1) \cup
         {Append(q, x) : q \in {r \in SeqsUpTo(S, n - 1) : Len(r) = n - 1}, x \in S}

\* {'Type': ['ghi']}, and {'Type': 'ghi'} as __main__ passes it
FilterList == [Type |-> [kind |-> "list", items |-> <<GHI>>, str |-> <<>>]]
FilterStr == [Type |-> [kind |-> "str", items |-> <<>>, str |-> GHI]]

StartMeta ==
    /\ metaFeed \in SeqsUpTo(Sites, MaxSites)
    /\ metaFilters \in {FilterList, FilterStr}
    /\ metaResult = None
    /\ metaPc = "fetched"

IdleMeta ==
    /\ metaFeed = None
    /\ metaFilters = None
    /\ metaResult = None
    /\ metaPc = "off"

notMeta == <<nameVars, colorVars, resVars, s3Vars, viewVars, procVars>>

ParseMetadata ==
    /\ metaPc = "fetched"
    /\ metaResult' = parse_metadata(metaFeed, metaFilters)
    /\ metaPc' = "returned"
    /\ UNCHANGED <<metaFeed, metaFilters, notMeta>>

NextMeta == ParseMetadata

\* The {name, x, y} entries of the sites whose Type equals 'ghi'.
GhiEntries(js) ==
    {[name |-> js[i].Name,
      x |-> transform(js[i].Longitude, js[i].Latitude)[1],
      y |-> transform(js[i].Longitude, js[i].Latitude)[2]] :
        i \in {j \in 1..Len(js) : "Type" \in DOMAIN js[j] /\ js[j].Type = GHI}}

\* C5: with either filter, parse_metadata returns a list that holds exactly
\* one {name, x, y} entry for each distinct (name, x, y) among the sites
\* whose Type equals 'ghi', and no other entry.
C5_GhiSitesDeduplicated ==
    metaPc = "returned" =>
        /\ metaResult.kind = "list"
        /\ {metaResult.value[i] : i \in 1..Len(metaResult.value)}
               = GhiEntries(metaFeed)
        /\ Len(metaResult.value) = Cardinality(GhiEntries(metaFeed))

(***************************************************************************)
(* get_s3_keys, and the S3 listing it pages through.                       *)
(***************************************************************************)

\* "%03d"
Pad3(n) == <<Digit((n \div 100) % 10)>> \o Pad2(n % 100)

\* timestamp.strftime('%Y/%j/%H') of a time in seconds since the epoch
strftime_Yjh(sec) ==
    LET days == sec \div 86400
        c    == CivilFromDays(days)
        doy  == days - DaysFromCivil(c.year, 1, 1) + 1
    IN  Pad4(c.year) \o <<"/">> \o Pad3(doy) \o <<"/">> \o Pad2((sec % 86400) \div 3600)

\* The keys of the bucket that start with a prefix, in listing order.
RECURSIVE Matching(_, _)
Matching(keys, prefix) ==
    IF keys = <<>> THEN <<>>
    ELSE (IF StartsWith(Head(keys), prefix) THEN <<Head(keys)>> ELSE <<>>)
         \o Matching(Tail(keys), prefix)

\* The most keys S3 puts on one page.
PageSize == 2

\* s3.list_objects_v2(**kwargs): the next PageSize keys under Prefix after
\* the place the ContinuationToken names (the number of keys already
\* listed), with a NextContinuationToken when keys remain.
list_objects_v2(bucket, kwargs) ==
    LET all   == Matching(bucket, kwargs.Prefix)
        from  == IF "ContinuationToken" \in DOMAIN kwargs
                 THEN kwargs.ContinuationToken ELSE 0
        upto  == IF from + PageSize < Len(all) THEN from + PageSize ELSE Len(all)
        page  == SubSeq(all, from + 1, upto)
        base  == [KeyCount |-> Len(page), Contents |-> page]
    IN  IF upto < Len(all)
        THEN [KeyCount |-> Len(page), Contents |-> page,
              NextContinuationToken |-> upto]
        ELSE base

\* A plausible slip: the token is never put into kwargs.
WithContinuationToken_dropped(kwargs, resp) == kwargs

\* kwargs["ContinuationToken"] = resp["NextContinuationToken"]
WithContinuationToken(kwargs, resp) ==
    [k \in DOMAIN kwargs \cup {"ContinuationToken"} |->
        IF k = "ContinuationToken" THEN resp.NextContinuationToken ELSE kwargs[k]]

\* The hours of the keys of the model: 17h and 18h of 4 August 2019.
S3Hours == <<1564938318, 1564941918>>

\* The keys a bucket of the model may hold, in listing order.
KeyUniverse ==
    << <<"M">> \o strftime_Yjh(S3Hours[1]) \o <<"a">>,
       <<"M">> \o strftime_Yjh(S3Hours[1]) \o <<"b">>,
       <<"M">> \o strftime_Yjh(S3Hours[1]) \o <<"c">>,
       <<"M">> \o strftime_Yjh(S3Hours[2]) \o <<"a">>,
       <<"M", "x">>,
       <<"N", "a">> >>

\* The sub-list of KeyUniverse at a set of indices.
RECURSIVE Pick(_, _)
Pick(I, i) ==
    IF i > Len(KeyUniverse) THEN <<>>
    ELSE (IF i \in I THEN <<KeyUniverse[i]>> ELSE <<>>) \o Pick(I, i + 1)

\* The most requests a run makes in the model; a run needs at most one
\* more than the bucket has keys.
MaxRequests == 7

StartS3 ==
    /\ s3Bucket \in {Pick(I, 1) : I \in SUBSET (1..Len(KeyUniverse))}
    /\ s3Prefix \in {<<"M">>, <<"N">>}
    \* 0 stands for timestamp=None
    /\ s3Timestamp \in {0, S3Hours[1], S3Hours[2]}
    \* kwargs = {"Bucket": bucket}; kwargs["Prefix"] = prefix;
    \* if timestamp is not None: kwargs['Prefix'] += timestamp.strftime(...)
    /\ s3Kwargs = [Prefix |-> IF s3Timestamp = 0 THEN s3Prefix
                              ELSE s3Prefix \o strftime_Yjh(s3Timestamp)]
    \* no page in hand yet
    /\ s3Resp = [KeyCount |-> 0, Contents |-> <<>>]
    /\ s3Idx = 0
    /\ s3Yielded = <<>>
    /\ s3Pages = <<>>
    /\ s3Requests = <<>>
    /\ s3Pc = "request"

IdleS3 ==
    /\ s3Bucket = None
    /\ s3Prefix = None
    /\ s3Timestamp = None
    /\ s3Kwargs = None
    /\ s3Resp = None
    /\ s3Idx = 0
    /\ s3Yielded = <<>>
    /\ s3Pages = <<>>
    /\ s3Requests = <<>>
    /\ s3Pc = "off"

notS3 == <<nameVars, colorVars, resVars, metaVars, viewVars, procVars>>

\* resp = s3.list_objects_v2(**kwargs); if resp["KeyCount"] == 0: break
Request ==
    /\ s3Pc = "request"
    /\ Len(s3Pages) < MaxRequests
    /\ LET resp == list_objects_v2(s3Bucket, s3Kwargs)
       IN  /\ s3Resp' = resp
           /\ s3Pages' = Append(s3Pages, resp)
           /\ s3Requests' = Append(s3Requests, s3Kwargs)
           /\ s3Idx' = 1
           /\ s3Pc' = IF resp.KeyCount = 0 THEN "done" ELSE "contents"
    /\ UNCHANGED <<s3Bucket, s3Prefix, s3Timestamp, s3Kwargs, s3Yielded, notS3>>

\* for obj in resp["Contents"]: key = obj["Key"];
\*     if key.startswith(prefix): yield key
NextObject ==
    /\ s3Pc = "contents"
    /\ s3Idx <= Len(s3Resp.Contents)
    /\ s3Yielded' = IF StartsWith(s3Resp.Contents[s3Idx], s3Prefix)
                    THEN Append(s3Yielded, s3Resp.Contents[s3Idx])
                    ELSE s3Yielded
    /\ s3Idx' = s3Idx + 1
    /\ UNCHANGED <<s3Bucket, s3Prefix, s3Timestamp, s3Kwargs, s3Resp, s3Pages,
                   s3Requests, s3Pc, notS3>>

\* try: kwargs["ContinuationToken"] = resp["NextContinuationToken"]
\* except KeyError: break
NextPage ==
    /\ s3Pc = "contents"
    /\ s3Idx > Len(s3Resp.Contents)
    /\ IF "NextContinuationToken" \in DOMAIN s3Resp
       THEN /\ s3Kwargs' = WithContinuationToken(s3Kwargs, s3Resp)
            /\ s3Pc' = "request"
       ELSE /\ s3Pc' = "done"
            /\ UNCHANGED s3Kwargs
    /\ UNCHANGED <<s3Bucket, s3Prefix, s3Timestamp, s3Resp, s3Idx, s3Yielded,
                   s3Pages, s3Requests, notS3>>

NextS3 == Request \/ NextObject \/ NextPage

\* The keys of the first n pages fetched, in the order they were listed.
RECURSIVE PageKeys(_, _)
PageKeys(pages, n) ==
    IF n = 0 THEN <<>> ELSE PageKeys(pages, n - 1) \o pages[n].Contents

\* The keys get_s3_keys has looked at so far.
KeysSeen ==
    IF s3Pc = "contents"
    THEN PageKeys(s3Pages, Len(s3Pages) - 1)
         \o SubSeq(s3Resp.Contents, 1, s3Idx - 1)
    ELSE PageKeys(s3Pages, Len(s3Pages))

C10_Paging ==
    /\ Len(s3Requests) = Len(s3Pages)
    /\ Len(s3Pages) <= Len(s3Bucket) + 1
    \* the first request carries no token, every later one the token of
    \* the page before it, and all carry the same Prefix
    /\ \A i \in 1..Len(s3Requests) :
        /\ s3Requests[i].Prefix = s3Kwargs.Prefix
        /\ IF i = 1 THEN "ContinuationToken" \notin DOMAIN s3Requests[i]
           ELSE /\ "ContinuationToken" \in DOMAIN s3Requests[i]
                /\ s3Requests[i].ContinuationToken
                       = s3Pages[i - 1].NextContinuationToken
    \* no page is fetched after a page with KeyCount 0 or without a token
    /\ \A i \in 1..(Len(s3Pages) - 1) :
        /\ s3Pages[i].KeyCount > 0
        /\ "NextContinuationToken" \in DOMAIN s3Pages[i]
    /\ s3Pc = "done" =>
        \/ Last(s3Pages).KeyCount = 0
        \/ "NextContinuationToken" \notin DOMAIN Last(s3Pages)
    \* the keys yielded are the keys seen that start with prefix, each once
    \* and in listing order
    /\ s3Yielded = Matching(KeysSeen, s3Prefix)
    \* and at the end they are the keys of the bucket under kwargs' Prefix
    /\ s3Pc = "done" => s3Yielded = Matching(s3Bucket, s3Kwargs.Prefix)

\* C10: get_s3_keys terminates on a listing of finitely many pages,
\* stopping at the first page with KeyCount 0 or without a
\* NextContinuationToken; it requests every page after the first with the
\* continuation token of the page before it; and it yields every key of
\* every fetched page that starts with prefix exactly once and in listing
\* order, with or without a timestamp.
C10_PagesToTheEnd == [](s3Pc # "off" => C10_Paging) /\ <>(s3Pc = "done")

\* A run with a timestamp that took two pages and yielded three keys.
C10_Witness ==
    /\ s3Pc = "done"
    /\ s3Timestamp = S3Hours[1]
    /\ Len(s3Pages) = 2
    /\ Len(s3Yielded) = 3
    /\ s3Requests[2].ContinuationToken = 2

(***************************************************************************)
(* figure.py: the CustomJS callbacks of the viewer.  A URL and a file name *)
(* are sequences of characters.                                            *)
(***************************************************************************)

\* base_url
BaseUrl == <<"h", "/">>

\* The value of result.url[0] when result.url is empty.
Undefined == <<"undefined">>

\* The names the directory may come to hold: three frames and metadata.json.
ListingNames ==
    {<<"a", ".", "p", "n", "g">>, <<"b", ".", "p", "n", "g">>,
     <<"c", ".", "p", "n", "g">>, <<"m", ".", "j", "s", "o", "n">>}

\* The most entries of the listing.
MaxListing == 3

\* The adapter's loop: base_url + name for the names that end with '.png'.
RECURSIVE PngUrls(_)
PngUrls(urls) ==
    IF urls = <<>> THEN <<>>
    ELSE (IF EndsWith(Head(urls), <<".", "p", "n", "g">>)
          THEN <<BaseUrl \o Head(urls)>> ELSE <<>>)
         \o PngUrls(Tail(urls))

Max(a, b) == IF a > b THEN a ELSE b

Min(a, b) == IF a < b THEN a ELSE b

\* title_callback on fig_source, run when fig_source.tags changes: with an
\* undefined url, url.split throws and the title stays.
TitleAfter(figUrl, title) ==
    IF figUrl[1] = Undefined THEN title ELSE title_callback(figUrl[1])

\* callback, run when slider.value changes to value: before the first
\* poll url_source.data has no 'url' and the callback throws.
FigAfterSlider(value) ==
    IF vPolled /\ value < Len(vUrlData)
    THEN /\ vFigUrl' = <<vUrlData[value + 1]>>
         /\ vTitleDate' = TitleAfter(<<vUrlData[value + 1]>>, vTitleDate)
    ELSE UNCHANGED <<vFigUrl, vTitleDate>>

\* slider.value = value: the callback runs if the value changes.
SetSliderValue(value) ==
    /\ vSliderValue' = value
    /\ IF value # vSliderValue THEN FigAfterSlider(value)
       ELSE UNCHANGED <<vFigUrl, vTitleDate>>

StartViewer ==
    /\ vListing = <<>>
    /\ vResponse = <<>>
    /\ vPolled = FALSE
    /\ vUrlData = <<>>
    /\ vFigUrl = <<>>
    /\ vTitleDate = <<>>
    /\ vSliderValue = 0
    /\ vSliderEnd = 100
    /\ vActive = 1
    /\ vTimer = FALSE

IdleViewer ==
    /\ vListing = <<>>
    /\ vResponse = <<>>
    /\ vPolled = FALSE
    /\ vUrlData = <<>>
    /\ vFigUrl = <<>>
    /\ vTitleDate = <<>>
    /\ vSliderValue = 0
    /\ vSliderEnd = 0
    /\ vActive = 1
    /\ vTimer = FALSE

notViewer == <<nameVars, colorVars, resVars, metaVars, s3Vars, procVars>>

\* A file appears in the directory the viewer polls: the listing is
\* append-only.
ListingAppend(name) ==
    /\ Len(vListing) < MaxListing
    /\ \A i \in 1..Len(vListing) : vListing[i] # name
    /\ vListing' = Append(vListing, name)
    /\ UNCHANGED <<vResponse, vPolled, vUrlData, vFigUrl, vTitleDate,
                   vSliderValue, vSliderEnd, vActive, vTimer, notViewer>>

\* url_source polls and runs the adapter on the response; the adapter's
\* result becomes url_source.data.
Poll ==
    LET result == PngUrls(vListing)
        first  == IF result = <<>> THEN Undefined ELSE result[1]
    IN  /\ vResponse' = vListing
        /\ vSliderEnd' = Max(Len(result) - 1, 1)
        /\ IF Len(vFigUrl) = 0
           THEN /\ vFigUrl' = <<first>>
                /\ vTitleDate' = TitleAfter(<<first>>, vTitleDate)
           ELSE UNCHANGED <<vFigUrl, vTitleDate>>
        /\ vUrlData' = result
        /\ vPolled' = TRUE
        /\ UNCHANGED <<vListing, vSliderValue, vActive, vTimer, notViewer>>

\* The user drags the slider to another value.
SliderMove(value) ==
    /\ value # vSliderValue
    /\ value <= vSliderEnd
    /\ SetSliderValue(value)
    /\ UNCHANGED <<vListing, vResponse, vPolled, vUrlData, vSliderEnd, vActive,
                   vTimer, notViewer>>

\* The user presses another play button: play_callback.  stop() sets
\* cb_obj.active = 1, so the group ends at 1 after the stop and the reset
\* button.
PlayButton(active) ==
    /\ active # vActive
    /\ IF active = 0
       THEN /\ vTimer' = TRUE
            /\ vActive' = 0
            /\ UNCHANGED <<vSliderValue, vFigUrl, vTitleDate>>
       ELSE /\ vTimer' = FALSE
            /\ vActive' = 1
            /\ IF active = 2 THEN SetSliderValue(0)
               ELSE UNCHANGED <<vSliderValue, vFigUrl, vTitleDate>>
    /\ UNCHANGED <<vListing, vResponse, vPolled, vUrlData, vSliderEnd, notViewer>>

\* advance(), once a second while the timer runs
Advance ==
    /\ vTimer
    /\ SetSliderValue(IF vSliderValue < vSliderEnd THEN vSliderValue + 1 ELSE 0)
    /\ UNCHANGED <<vListing, vResponse, vPolled, vUrlData, vSliderEnd, vActive,
                   vTimer, notViewer>>

NextViewer ==
    \/ \E name \in ListingNames : ListingAppend(name)
    \/ Poll
    \/ \E value \in 0..(MaxListing + 1) : SliderMove(value)
    \/ \E active \in 0..2 : PlayButton(active)
    \/ Advance

\* C9: after any polls, slider moves and playback ticks, whenever the
\* slider value is below the number of listed frames, the displayed frame
\* URL is base_url plus the name of the entry at the slider's index among
\* the '.png' entries of the most recent listing; entries without the
\* '.png' suffix never become a frame.
C9_DisplayedFrameIsSliderFrame ==
    /\ vPolled /\ vSliderValue < Len(PngUrls(vResponse)) =>
        /\ Len(vFigUrl) = 1
        /\ vFigUrl[1] = PngUrls(vResponse)[vSliderValue + 1]
    /\ Len(vFigUrl) = 1 /\ vFigUrl[1] # Undefined =>
        EndsWith(vFigUrl[1], <<".", "p", "n", "g">>)

(***************************************************************************)
(* process_s3_file.  Each run is a sequence of steps, one per call the     *)
(* function makes; runs may overlap, and the viewer may poll the output    *)
(* directory between any two steps.  A Scene's coordinates are whole       *)
(* numbers: x is the longitude relative to the satellite's, y the          *)
(* latitude.                                                               *)
(***************************************************************************)

\* The Bounding Region presets of goes_viewer.constants: lon/lat corners.
G16_CORNERS == [name |-> "G16_CORNERS", lon |-> <<-116, -108>>, lat |-> <<31, 37>>]
G17_CORNERS == [name |-> "G17_CORNERS", lon |-> <<-120, -110>>, lat |-> <<31, 37>>]

GOES16 == <<"n", "o", "a", "a", "-", "g", "o", "e", "s", "1", "6">>
GOES17 == <<"n", "o", "a", "a", "-", "g", "o", "e", "s", "1", "7">>

\* The files of the model: a Scene of GOES-16 and two of GOES-17 that
\* cover the satellite's preset, then a Scene whose columns miss the box
\* and a Scene whose rows miss it.
Scenes ==
    {[bucket |-> GOES16, platform_ID |-> <<"G", "1", "6">>, lon_0 |-> -75,
      t |-> [sec |-> 1564938318, nanos |-> 500000000],
      x |-> <<-45, -40, -35, -30>>, y |-> <<29, 33, 35>>],
     [bucket |-> GOES17, platform_ID |-> <<"G", "1", "7">>, lon_0 |-> -137,
      t |-> [sec |-> 1564938318, nanos |-> 500000000],
      x |-> <<15, 20, 25, 30>>, y |-> <<29, 33, 35>>],
     [bucket |-> GOES17, platform_ID |-> <<"G", "1", "7">>, lon_0 |-> -137,
      t |-> [sec |-> 1564938918, nanos |-> 0],
      x |-> <<15, 20, 25, 30>>, y |-> <<29, 33, 35>>],
     [bucket |-> GOES17, platform_ID |-> <<"G", "1", "7">>, lon_0 |-> -137,
      t |-> [sec |-> 1564941918, nanos |-> 0],
      x |-> <<-5, 0, 5>>, y |-> <<29, 33, 35>>],
     [bucket |-> GOES16, platform_ID |-> <<"G", "1", "6">>, lon_0 |-> -75,
      t |-> [sec |-> 1564941918, nanos |-> 0],
      x |-> <<-45, -40, -35, -30>>, y |-> <<-10, 0>>]}

\* The most runs of process_s3_file in a behaviour.
MaxRuns == 2

\* bnds = transform(crs.geodetic_crs, crs, corners[:, 0], corners[:, 1])
Bnds(ds, corners) ==
    [x |-> <<corners.lon[1] - ds.lon_0, corners.lon[2] - ds.lon_0>>,
     y |-> corners.lat]

\* The values of a coordinate within [lo, hi], in order: isel at
\* np.nonzero((c >= min) & (c <= max)).
RECURSIVE Within(_, _, _)
Within(c, lo, hi) ==
    IF c = <<>> THEN <<>>
    ELSE (IF Head(c) >= lo /\ Head(c) <= hi THEN <<Head(c)>> ELSE <<>>)
         \o Within(Tail(c), lo, hi)

\* open_file(path, corners): the Scene cut to the box
open_file(scene, corners) ==
    LET bnds == Bnds(scene, corners)
    IN  [scene EXCEPT
            !.x = Within(scene.x, Min(bnds.x[1], bnds.x[2]), Max(bnds.x[1], bnds.x[2])),
            !.y = Within(scene.y, Min(bnds.y[1], bnds.y[2]), Max(bnds.y[1], bnds.y[2]))]

\* if 'goes17' in bucket: corners = G17_CORNERS else: corners = G16_CORNERS
CornersOf(bucket) ==
    IF IsSubstring(<<"g", "o", "e", "s", "1", "7">>, bucket)
    THEN G17_CORNERS ELSE G16_CORNERS

\* The least and the greatest of a non-empty coordinate.
SeqMin(c) == CHOOSE v \in {c[i] : i \in 1..Len(c)} : \A j \in 1..Len(c) : v <= c[j]
SeqMax(c) == CHOOSE v \in {c[i] : i \in 1..Len(c)} : \A j \in 1..Len(c) : v >= c[j]

NoPlan == [raised |-> FALSE, made |-> FALSE, platform |-> <<>>, width |-> 0,
           height |-> 0, area_extent |-> <<>>, corners |-> ""]

\* A plausible slip: the extent of an empty coordinate is taken as 0
\* instead of raising.
make_resample_params_noraise(ds, corners) ==
    [raised |-> FALSE, made |-> TRUE, platform |-> ds.platform_ID,
     width |-> Len(ds.x), height |-> Len(ds.y),
     area_extent |-> IF Len(ds.x) = 0 \/ Len(ds.y) = 0 THEN <<0, 0, 0, 0>>
                     ELSE <<SeqMin(ds.x), SeqMin(ds.y), SeqMax(ds.x), SeqMax(ds.y)>>,
     corners |-> corners.name]

\* make_resample_params(ds, corners): ds.x.min() and ds.y.min() raise
\* ValueError on a coordinate of length 0; else the Plan of the source
\* area (platform, width, height, extent) and the target corners.
make_resample_params(ds, corners) ==
    IF Len(ds.x) = 0 \/ Len(ds.y) = 0
    THEN [NoPlan EXCEPT !.raised = TRUE]
    ELSE [raised |-> FALSE, made |-> TRUE, platform |-> ds.platform_ID,
          width |-> Len(ds.x), height |-> Len(ds.y),
          area_extent |-> <<SeqMin(ds.x), SeqMin(ds.y), SeqMax(ds.x), SeqMax(ds.y)>>,
          corners |-> corners.name]

\* The corners process_s3_file hands to make_resample_params.
PlanCornersOf(bucket) == G17_CORNERS

\* The (satellite, target extent) keys.
PlanKeys == {<<sc.platform_ID, c>> : sc \in Scenes, c \in {"G16_CORNERS", "G17_CORNERS"}}

\* A plausible change: a Plan made before for the key is taken again and
\* make_resample_params does not run.
CountPlanRun_memoized(runs, key) ==
    IF runs[key] > 0 THEN runs ELSE [runs EXCEPT ![key] = @ + 1]

\* One more run of make_resample_params for the key.
CountPlanRun(runs, key) == [runs EXCEPT ![key] = @ + 1]

FrameNames == {make_img_filename(sc) : sc \in Scenes}

StartProcess ==
    /\ pRuns = <<>>
    /\ pFiles = [n \in FrameNames |-> "absent"]
    /\ pPlanRuns = [k \in PlanKeys |-> 0]
    /\ pPolled = {}

IdleProcess ==
    /\ pRuns = <<>>
    /\ pFiles = <<>>
    /\ pPlanRuns = <<>>
    /\ pPolled = {}

notProcess == <<nameVars, colorVars, resVars, metaVars, s3Vars, viewVars>>

\* process_s3_file(bucket, key) is called: fs.open of the file.
StartRun(scene) ==
    /\ Len(pRuns) < MaxRuns
    /\ pRuns' = Append(pRuns,
                       [pc |-> "open", scene |-> scene, clip |-> "", ds |-> scene,
                        plan |-> NoPlan, wrote |-> FALSE, error |-> ""])
    /\ UNCHANGED <<pFiles, pPlanRuns, pPolled, notProcess>>

\* corners = ...; ds = open_file(remote_file, corners, 'h5netcdf')
OpenFile(i) ==
    /\ pRuns[i].pc = "open"
    /\ LET corners == CornersOf(pRuns[i].scene.bucket)
       IN  pRuns' = [pRuns EXCEPT ![i].pc = "composite",
                                  ![i].clip = corners.name,
                                  ![i].ds = open_file(pRuns[i].scene, corners)]
    /\ UNCHANGED <<pFiles, pPlanRuns, pPolled, notProcess>>

\* img = make_geocolor_image(ds): numpy composes an image of any shape,
\* the empty one too.
MakeGeocolorImage(i) ==
    /\ pRuns[i].pc = "composite"
    /\ pRuns' = [pRuns EXCEPT ![i].pc = "params"]
    /\ UNCHANGED <<pFiles, pPlanRuns, pPolled, notProcess>>

\* resample_params, shape = make_resample_params(ds, G17_CORNERS)
MakeResampleParams(i) ==
    /\ pRuns[i].pc = "params"
    /\ LET corners == PlanCornersOf(pRuns[i].scene.bucket)
           plan    == make_resample_params(pRuns[i].ds, corners)
       IN  IF plan.raised
           THEN /\ pRuns' = [pRuns EXCEPT ![i].pc = "raised",
                                          ![i].error = "ValueError"]
                /\ UNCHANGED pPlanRuns
           ELSE /\ pRuns' = [pRuns EXCEPT ![i].pc = "resample", ![i].plan = plan]
                /\ pPlanRuns' = CountPlanRun(pPlanRuns,
                                             <<plan.platform, plan.corners>>)
    /\ UNCHANGED <<pFiles, pPolled, notProcess>>

\* nimg = resample_image(resample_params, shape, img)
ResampleStep(i) ==
    /\ pRuns[i].pc = "resample"
    /\ pRuns' = [pRuns EXCEPT ![i].pc = "save"]
    /\ UNCHANGED <<pFiles, pPlanRuns, pPolled, notProcess>>

\* Image.fromarray(nimg).save(make_img_filename(ds), ...): save opens the
\* file of that name for writing, which creates or empties it.
SaveOpen(i) ==
    /\ pRuns[i].pc = "save"
    /\ pRuns' = [pRuns EXCEPT ![i].pc = "writing", ![i].wrote = TRUE]
    /\ pFiles' = [pFiles EXCEPT ![make_img_filename(pRuns[i].ds)] = "partial"]
    /\ UNCHANGED <<pPlanRuns, pPolled, notProcess>>

\* save writes the image to the end and closes the file.
SaveFinish(i) ==
    /\ pRuns[i].pc = "writing"
    /\ pRuns' = [pRuns EXCEPT ![i].pc = "returned"]
    /\ pFiles' = [pFiles EXCEPT ![make_img_filename(pRuns[i].ds)] =
                     IF \E j \in 1..Len(pRuns) :
                            /\ j # i
                            /\ pRuns[j].pc = "writing"
                            /\ make_img_filename(pRuns[j].ds)
                                   = make_img_filename(pRuns[i].ds)
                     THEN "partial" ELSE "complete"]
    /\ UNCHANGED <<pPlanRuns, pPolled, notProcess>>

\* The write fails part-way (the disk is full, the process is stopped):
\* the file stays as far as it was written, or, where the Pillow in use
\* removes a file it created, is gone.
SaveFail(i) ==
    /\ pRuns[i].pc = "writing"
    /\ pRuns' = [pRuns EXCEPT ![i].pc = "raised", ![i].error = "OSError"]
    /\ \E left \in {"partial", "absent"} :
           pFiles' = [pFiles EXCEPT ![make_img_filename(pRuns[i].ds)] = left]
    /\ UNCHANGED <<pPlanRuns, pPolled, notProcess>>

\* The viewer's url_source lists the output directory.
ViewerPoll ==
    /\ pPolled' = {[name |-> n, state |-> pFiles[n]] :
                      n \in {m \in FrameNames : pFiles[m] # "absent"}}
    /\ UNCHANGED <<pRuns, pFiles, pPlanRuns, notProcess>>

NextProcess ==
    \/ \E scene \in Scenes : StartRun(scene)
    \/ \E i \in 1..Len(pRuns) : OpenFile(i)
    \/ \E i \in 1..Len(pRuns) : MakeGeocolorImage(i)
    \/ \E i \in 1..Len(pRuns) : MakeResampleParams(i)
    \/ \E i \in 1..Len(pRuns) : ResampleStep(i)
    \/ \E i \in 1..Len(pRuns) : SaveOpen(i)
    \/ \E i \in 1..Len(pRuns) : SaveFinish(i)
    \/ \E i \in 1..Len(pRuns) : SaveFail(i)
    \/ ViewerPoll

\* A run whose Scene, once cut to the box, has no column or no row.
EmptySelection(r) ==
    /\ r.pc # "open"
    /\ Len(r.ds.x) = 0 \/ Len(r.ds.y) = 0

\* C1: a run of process_s3_file on a Scene with no coordinate inside the
\* box on the x axis or on the y axis ends in an error (the ValueError of
\* the minimum of an empty coordinate, the code's error for what the
\* specification calls a DataError) before anything is written; it never
\* returns, and it writes no output image.
C1_EmptySelectionRaises ==
    \A i \in 1..Len(pRuns) :
        EmptySelection(pRuns[i]) =>
            /\ pRuns[i].pc \in {"composite", "params", "raised"}
            /\ pRuns[i].pc = "raised" => pRuns[i].error = "ValueError"
            /\ ~pRuns[i].wrote
            /\ ~pRuns[i].plan.made

\* A run on the Scene whose columns miss the box and a run on the Scene
\* whose rows miss it have both ended, in ValueError, with no file written.
C1_Witness ==
    /\ Len(pRuns) >= 2
    /\ \A i \in 1..2 : pRuns[i].pc = "raised" /\ pRuns[i].error = "ValueError"
    /\ Len(pRuns[1].ds.x) = 0 /\ Len(pRuns[1].ds.y) > 0
    /\ Len(pRuns[2].ds.y) = 0 /\ Len(pRuns[2].ds.x) > 0
    /\ \A n \in FrameNames : pFiles[n] = "absent"

\* C3: for a file of either bucket, the Bounding Region the Plan's target
\* extent is built from is the preset the Scene was clipped with.
C3_PlanUsesClipCorners ==
    \A i \in 1..Len(pRuns) :
        pRuns[i].plan.made => pRuns[i].plan.corners = pRuns[i].clip

\* C6: at every moment, a poll's moment included, the file at a frame's
\* name is absent or a complete Output Frame, and a failed run leaves no
\* file.
C6_NoPartialFileVisible ==
    /\ \A n \in FrameNames : pFiles[n] \in {"absent", "complete"}
    /\ \A e \in pPolled : e.state = "complete"

\* The runs that hold a Plan for a key.
RunsWithPlan(key) ==
    {i \in 1..Len(pRuns) :
        /\ pRuns[i].plan.made
        /\ <<pRuns[i].plan.platform, pRuns[i].plan.corners>> = key}

\* C7 as stated: make_resample_params runs at most once per (satellite,
\* target extent) key.
C7_PlanComputedOncePerKey ==
    \A key \in PlanKeys : pPlanRuns[key] <= 1

\* C7 amended: every run of process_s3_file that gets as far computes the
\* Plan itself, so make_resample_params has run once per frame of the key,
\* not once per key, and no run takes another run's Plan; the Plans of two
\* frames of one key with the same clipped grid are equal.
C7_PlanComputedOncePerFrame ==
    /\ \A key \in PlanKeys : pPlanRuns[key] = Cardinality(RunsWithPlan(key))
    /\ \A i \in 1..Len(pRuns) :
        pRuns[i].pc \in {"resample", "save", "writing", "returned"} =>
            pRuns[i].plan = make_resample_params(pRuns[i].ds, G17_CORNERS)

\* Two frames of one satellite have been processed to the end, and
\* make_resample_params has run twice for the key.
C7_Witness ==
    /\ Len(pRuns) >= 2
    /\ pRuns[1].pc = "returned" /\ pRuns[2].pc = "returned"
    /\ pRuns[1].scene.t # pRuns[2].scene.t
    /\ pRuns[1].plan = pRuns[2].plan
    /\ pPlanRuns[<<pRuns[1].plan.platform, pRuns[1].plan.corners>>] = 2

(***************************************************************************)
(* The specifications.                                                     *)
(***************************************************************************)

InitName == StartName /\ IdleColor /\ IdleResample /\ IdleMeta /\ IdleS3 /\ IdleViewer /\ IdleProcess
SpecName == InitName /\ [][NextName]_vars

InitColor == IdleName /\ StartColor /\ IdleResample /\ IdleMeta /\ IdleS3 /\ IdleViewer /\ IdleProcess
SpecColor == InitColor /\ [][NextColor]_vars

InitResample == IdleName /\ IdleColor /\ StartResample /\ IdleMeta /\ IdleS3 /\ IdleViewer /\ IdleProcess
SpecResample == InitResample /\ [][NextResample]_vars

InitMeta == IdleName /\ IdleColor /\ IdleResample /\ StartMeta /\ IdleS3 /\ IdleViewer /\ IdleProcess
SpecMeta == InitMeta /\ [][NextMeta]_vars

\* The consumer of the generator (the for loop of __main__) asks for the
\* next key until the generator ends, so the generator's steps are taken.
InitS3 == IdleName /\ IdleColor /\ IdleResample /\ IdleMeta /\ StartS3 /\ IdleViewer /\ IdleProcess
SpecS3 == InitS3 /\ [][NextS3]_vars /\ WF_vars(NextS3)

InitViewer ==
    IdleName /\ IdleColor /\ IdleResample /\ IdleMeta /\ IdleS3 /\ StartViewer
    /\ IdleProcess
SpecViewer == InitViewer /\ [][NextViewer]_vars

InitProcess ==
    IdleName /\ IdleColor /\ IdleResample /\ IdleMeta /\ IdleS3 /\ IdleViewer
    /\ StartProcess
SpecProcess == InitProcess /\ [][NextProcess]_vars

====
